---- MODULE Spec2Model ----
(***************************************************************************)
(* State-machine model of EvaluationPipeline.main in                       *)
(* src/ChestCancerClassifier/pipeline/stage_04_model_evaluation.py:        *)
(* the evaluation stage that logs to the tracking backend, reads           *)
(* scores.json and incorrect_predictions.json, and triggers retraining     *)
(* (append to retrain_trigger.txt, then `dvc repro training`) when more    *)
(* than five incorrect predictions are recorded.                           *)
(***************************************************************************)
EXTENDS Integers, Sequences, FiniteSets, TLC

(* ---------------------------------------------------------------- bounds *)
\* number of runs of main (one per launch of the stage) that are explored
MaxRuns == 2
\* largest number of entries of incorrect_predictions.json that is explored
MaxIncorrect == 7

(* ------------------------------------------------------ program constants *)
\* `if num_incorrect > 5`
RetrainThreshold == 5

STAGE_NAME == "Evaluation"

(* ----------------------------------------------------------- Python values *)
\* A Python value is a record [t |-> type name, v |-> payload].
IntVal(n) == [t |-> "int", v |-> n]
FloatVal(s) == [t |-> "float", v |-> s]
StrVal(s) == [t |-> "str", v |-> s]
BoolVal(s) == [t |-> "bool", v |-> s]
\* a list is the sequence of its elements
ListVal(s) == [t |-> "list", v |-> s]
\* the configuration's list type (IMAGE_SIZE), kept as its literal text
BoxListVal(s) == [t |-> "BoxList", v |-> s]
NoneVal == [t |-> "NoneType", v |-> "None"]
\* a dict is its items in insertion order: a sequence of <<key, value>>
DictVal(items) == [t |-> "dict", v |-> items]

Digit == <<"0", "1", "2", "3", "4", "5", "6", "7", "8", "9">>

RECURSIVE IntToStr(_)
IntToStr(n) ==
    IF n < 10 THEN Digit[n + 1]
    ELSE IntToStr(n \div 10) \o Digit[(n % 10) + 1]

\* str(value): a str is itself, an int its decimal digits, the other types
\* their literal text.
Str(x) == IF x.t = "int" THEN IntToStr(x.v) ELSE x.v

\* isinstance(value, (int, float)); bool is a subclass of int in Python.
IsIntOrFloat(x) == x.t \in {"int", "float", "bool"}

\* isinstance(results, dict)
IsDict(x) == x.t = "dict"

\* truth value of `results`: None and empty containers are false.
Truthy(x) ==
    CASE x.t = "NoneType" -> FALSE
      [] x.t = "dict" -> Len(x.v) > 0
      [] x.t = "list" -> Len(x.v) > 0
      [] x.t = "int" -> x.v # 0
      [] OTHER -> TRUE

(* ------------------------------------------------------------------ inputs *)
\* metric names; a mapping lists the names it holds in this order
MetricNames == <<"loss", "accuracy">>

MetricValues ==
    {IntVal(3), FloatVal("0.9"), BoolVal("True"), StrVal("adam")}

RECURSIVE ItemSeqs(_)
\* the items of every dict over the metric names from the k-th on: each name
\* is left out or given one of the values
ItemSeqs(k) ==
    IF k > Len(MetricNames) THEN {<<>>}
    ELSE LET rest == ItemSeqs(k + 1)
         IN  rest \cup
             { <<<<MetricNames[k], x>>>> \o s : s \in rest, x \in MetricValues }

\* what evaluation.evaluation() may return: a mapping of metric name to
\* value, possibly empty, or something that is not a mapping
ResultValues ==
    { DictVal(s) : s \in ItemSeqs(1) } \cup {NoneVal, ListVal(<<IntVal(1)>>)}

\* a JSON file on disk: missing, present but not JSON, or JSON text
Missing == [st |-> "missing", val |-> NoneVal]
Undecodable == [st |-> "undecodable", val |-> NoneVal]
Json(x) == [st |-> "json", val |-> x]

\* scores.json: missing, not JSON, a JSON object of metrics, or JSON that is
\* no object (an array)
ScoresFiles ==
    { Missing, Undecodable,
      Json(DictVal(<< <<"loss", FloatVal("0.4")>>,
                      <<"accuracy", FloatVal("0.9")>> >>)),
      Json(ListVal(<<>>)) }

\* the i-th record of incorrect_predictions.json
Prediction(i) == StrVal("img" \o IntToStr(i))

PredictionList(n) == ListVal([i \in 1..n |-> Prediction(i)])

\* incorrect_predictions.json: missing, not JSON, a JSON number, or a JSON
\* array of 0..MaxIncorrect records
IncorrectFiles ==
    { Missing, Undecodable, Json(IntVal(MaxIncorrect)) }
        \cup { Json(PredictionList(n)) : n \in 0..MaxIncorrect }

\* what `dvc repro training` may do: exit status, captured stdout and stderr
DvcOutcomes ==
    [rc : {0, 1}, out : {"", "Running stage 'training'"}, err : {"", "WARNING"}]

(* ------------------------------------------------------------------- state *)
VARIABLES
    pc,             \* position of the stage in main / the __main__ block
    runs,           \* launches of the stage so far
    scoresFile,     \* scores.json as this run finds it
    incorrectFile,  \* incorrect_predictions.json as this run finds it
    results,        \* local `results` (NoneVal before evaluation returns)
    evalCalls,      \* calls of evaluation.evaluation() in this run
    runStatus,      \* the tracking run: "none", "RUNNING", "FINISHED", "FAILED"
    log,            \* what this run logged to the tracking backend, in order
    messages,       \* logger output of this run, in order
    trigger,        \* lines of retrain_trigger.txt
    clock,          \* datetime.datetime.now()
    dvcCalls,       \* `dvc repro training` processes started in this run
    dvcRc,          \* exit status of this run's dvc process, -1 before it ran
    exc,            \* exception propagating out of main, or "none"
    trace,          \* steps of main executed in this run, in order
    triggerAtStart, \* lines retrain_trigger.txt held when this run began
    passedChecks,   \* runs so far that made the threshold test with more than
                    \* 5 entries in incorrect_predictions.json
    decision,       \* outcome of this run's threshold test: "none", "retrain", "skip"
    ref             \* the first run with the usual other inputs that made the
                    \* threshold test

vars == <<pc, runs, scoresFile, incorrectFile, results, evalCalls, runStatus,
          log, messages, trigger, clock, dvcCalls, dvcRc, exc, trace,
          triggerAtStart, passedChecks, decision, ref>>

NoRef == [run |-> 0, n |-> -1, retrain |-> FALSE]

Init ==
    /\ pc = "idle"
    /\ runs = 0
    /\ scoresFile = Missing
    /\ incorrectFile = Missing
    /\ results = NoneVal
    /\ evalCalls = 0
    /\ runStatus = "none"
    /\ log = <<>>
    /\ messages = <<>>
    /\ trigger = <<>>
    /\ clock = 0
    /\ dvcCalls = 0
    /\ dvcRc = -1
    /\ exc = "none"
    /\ trace = <<>>
    /\ triggerAtStart = 0
    /\ passedChecks = 0
    /\ decision = "none"
    /\ ref = NoRef

(* ------------------------------------------------------- tracking backend *)
\* mlflow.log_param(key, value): the backend stores the string form
ParamEvent(key, value) == [kind |-> "param", key |-> key, value |-> StrVal(Str(value))]

\* mlflow.log_metric(key, value)
MetricEvent(key, value) == [kind |-> "metric", key |-> key, value |-> value]

\* the configuration's params_image_size and params_batch_size
ImageSize == BoxListVal("[224, 224, 3]")
BatchSize == IntVal(16)

\* variant: only floats are taken for numbers
ResultEventFloatOnly(item) ==
    IF item[2].t = "float"
    THEN MetricEvent(item[1], item[2])
    ELSE ParamEvent(item[1], StrVal(Str(item[2])))

\* one pass of `for metric_name, metric_value in results.items()`
ResultEvent(item) ==
    IF IsIntOrFloat(item[2])
    THEN MetricEvent(item[1], item[2])
    ELSE ParamEvent(item[1], StrVal(Str(item[2])))

ResultEvents(items) == [i \in 1..Len(items) |-> ResultEvent(items[i])]

\* `for metric, value in scores.items(): mlflow.log_metric(metric, value)`
ScoreEvents(items) == [i \in 1..Len(items) |-> MetricEvent(items[i][1], items[i][2])]

\* f"incorrect_prediction_{idx}" for enumerate's idx, which starts at 0
PredictionKey(idx) == "incorrect_prediction_" \o IntToStr(idx)

\* `for idx, pred in enumerate(incorrect_data): mlflow.log_param(...)`
PredictionEvents(preds) ==
    [i \in 1..Len(preds) |-> ParamEvent(PredictionKey(i - 1), preds[i])]

\* variant: the test also looks at scores.json
ExceedsThresholdOrNoScores(n) == n > RetrainThreshold \/ scoresFile.st = "missing"

\* `num_incorrect > 5`
ExceedsThreshold(n) == n > RetrainThreshold

\* variant: the file is opened with mode "w"
OverwriteLine(file, line) == <<line>>

\* `open(trigger_file, "a")` and tf.write(line)
AppendLine(file, line) == Append(file, line)

\* variant: no `except json.JSONDecodeError` clause
NoDecodeErrorCaught(file) == FALSE

\* json.load raised JSONDecodeError, which the step's except clause catches
CaughtDecodeError(file) == file.st = "undecodable"

\* variant: subprocess.run without check=True
DvcNeverRaises(o) == FALSE

\* check=True: a non-zero exit status raises CalledProcessError, which the
\* except clause logs and re-raises
DvcRaises(o) == o.rc # 0

\* variant: the run is ended only on the normal path (no with block)
StatusAtExitNormalOnly(e) == IF e = "none" THEN "FINISHED" ELSE "RUNNING"

\* ActiveRun.__exit__ of `with mlflow.start_run(...)`
StatusAtExit(e) == IF e = "none" THEN "FINISHED" ELSE "FAILED"

\* f"Retraining triggered at {datetime.datetime.now().isoformat()}\n"
TriggerLine(now) == "Retraining triggered at " \o IntToStr(now)

\* logger output at level INFO and above (logger.debug is not emitted)
Say(msg) == messages' = Append(messages, msg)
SayAll(msgs) == messages' = messages \o msgs

ResultMessages(items) ==
    [i \in 1..Len(items) |->
        IF IsIntOrFloat(items[i][2])
        THEN "Logged metric: " \o items[i][1]
        ELSE "Logged param: " \o items[i][1]]

ScoreMessages(items) ==
    [i \in 1..Len(items) |-> "Logged metric from scores.json: " \o items[i][1]]
Step(name) == trace' = Append(trace, name)

(* ----------------------------------------------------------------- actions *)
\* the stage is launched: the __main__ block up to obj.main()
Start ==
    /\ pc \in {"idle", "done", "raised"}
    /\ runs < MaxRuns
    /\ runs' = runs + 1
    /\ \E sf \in ScoresFiles, inf \in IncorrectFiles :
          /\ scoresFile' = sf
          /\ incorrectFile' = inf
    /\ results' = NoneVal
    /\ evalCalls' = 0
    /\ runStatus' = "none"
    /\ log' = <<>>
    /\ messages' = <<">>>>>> stage " \o STAGE_NAME \o " started <<<<<<">>
    /\ dvcCalls' = 0
    /\ dvcRc' = -1
    /\ exc' = "none"
    /\ trace' = <<>>
    /\ triggerAtStart' = Len(trigger)
    /\ decision' = "none"
    /\ pc' = "load_config"
    /\ UNCHANGED <<trigger, clock, passedChecks, ref>>

\* steps 1-3: configuration, Evaluation(eval_config), dagshub.init
LoadConfig ==
    /\ pc = "load_config"
    /\ Say("Loading evaluation configuration...")
    /\ Step("load_config")
    /\ pc' = "start_run"
    /\ UNCHANGED <<runs, scoresFile, incorrectFile, results, evalCalls, runStatus,
                   log, trigger, clock, dvcCalls, dvcRc, exc, triggerAtStart,
                   passedChecks, decision, ref>>

\* `with mlflow.start_run(run_name=STAGE_NAME):` is entered
StartRun ==
    /\ pc = "start_run"
    /\ Say("Starting MLflow run...")
    /\ Step("start_run")
    /\ runStatus' = "RUNNING"
    /\ pc' = "log_params"
    /\ UNCHANGED <<runs, scoresFile, incorrectFile, results, evalCalls,
                   log, trigger, clock, dvcCalls, dvcRc, exc, triggerAtStart,
                   passedChecks, decision, ref>>

\* variant: the evaluation call is skipped
LogParamsSkipsEvaluation ==
    /\ pc = "log_params"
    /\ Say("Logging evaluation parameters...")
    /\ Step("log_params")
    /\ log' = log \o <<ParamEvent("image_size", ImageSize),
                        ParamEvent("batch_size", BatchSize)>>
    /\ pc' = "log_results"
    /\ UNCHANGED <<runs, scoresFile, incorrectFile, results, evalCalls, runStatus,
                   trigger, clock, dvcCalls, dvcRc, exc, triggerAtStart,
                   passedChecks, decision, ref>>

\* `mlflow.log_param("image_size", ...)`, `mlflow.log_param("batch_size", ...)`
LogParams ==
    /\ pc = "log_params"
    /\ Say("Logging evaluation parameters...")
    /\ Step("log_params")
    /\ log' = log \o <<ParamEvent("image_size", ImageSize),
                        ParamEvent("batch_size", BatchSize)>>
    /\ pc' = "evaluate"
    /\ UNCHANGED <<runs, scoresFile, incorrectFile, results, evalCalls, runStatus,
                   trigger, clock, dvcCalls, dvcRc, exc, triggerAtStart,
                   passedChecks, decision, ref>>

\* `results = evaluation.evaluation()`
Evaluate ==
    /\ pc = "evaluate"
    /\ \E r \in ResultValues : results' = r
    /\ evalCalls' = evalCalls + 1
    /\ SayAll(<<"Running evaluation...", "Evaluation results">>)
    /\ Step("evaluate")
    /\ pc' = "log_results"
    /\ UNCHANGED <<runs, scoresFile, incorrectFile, runStatus,
                   log, trigger, clock, dvcCalls, dvcRc, exc, triggerAtStart,
                   passedChecks, decision, ref>>

\* step 6: log the entries of `results`
LogResults ==
    /\ pc = "log_results"
    /\ Step("log_results")
    /\ IF Truthy(results) /\ IsDict(results)
       THEN /\ log' = log \o ResultEvents(results.v)
            /\ SayAll(<<"Logging metrics from evaluation results...">>
                         \o ResultMessages(results.v))
       ELSE /\ log' = log
            /\ SayAll(<<"Logging metrics from evaluation results...",
                        "No evaluation metrics to log.">>)
    /\ pc' = "scores"
    /\ UNCHANGED <<runs, scoresFile, incorrectFile, results, evalCalls, runStatus,
                   trigger, clock, dvcCalls, dvcRc, exc, triggerAtStart,
                   passedChecks, decision, ref>>

\* step 7: scores.json
ScoresStep ==
    /\ pc = "scores"
    /\ Step("scores")
    /\ CASE scoresFile.st = "missing" ->
              /\ SayAll(<<"Logging metrics from scores.json...",
                          "scores.json not found. Skipping logging from scores.json.">>)
              /\ UNCHANGED <<log, exc>>
              /\ pc' = "incorrect"
         [] CaughtDecodeError(scoresFile) ->
              /\ SayAll(<<"Logging metrics from scores.json...",
                          "Failed to decode scores.json">>)
              /\ UNCHANGED <<log, exc>>
              /\ pc' = "incorrect"
         [] scoresFile.st = "json" /\ IsDict(scoresFile.val) ->
              /\ SayAll(<<"Logging metrics from scores.json...">>
                           \o ScoreMessages(scoresFile.val.v))
              /\ log' = log \o ScoreEvents(scoresFile.val.v)
              /\ UNCHANGED exc
              /\ pc' = "incorrect"
         [] OTHER ->
              \* `scores.items()` on a value that is no mapping
              /\ Say("Logging metrics from scores.json...")
              /\ exc' = "AttributeError"
              /\ UNCHANGED log
              /\ pc' = "exit_run"
    /\ UNCHANGED <<runs, scoresFile, incorrectFile, results, evalCalls, runStatus,
                   trigger, clock, dvcCalls, dvcRc, triggerAtStart,
                   passedChecks, decision, ref>>

\* len(incorrect_data) is defined for lists and dicts only
HasLen(x) == x.t \in {"list", "dict"}
PyLen(x) == Len(x.v)

\* step 8, up to the threshold test: incorrect_predictions.json
IncorrectStep ==
    /\ pc = "incorrect"
    /\ Step("incorrect")
    /\ CASE incorrectFile.st = "missing" ->
              /\ SayAll(<<"Logging metrics from incorrect_predictions.json...",
                          "incorrect_predictions.json not found. Skipping logging from incorrect_predictions.json.">>)
              /\ UNCHANGED <<log, exc>>
              /\ pc' = "exit_run"
         [] CaughtDecodeError(incorrectFile) ->
              /\ SayAll(<<"Logging metrics from incorrect_predictions.json...",
                          "Failed to decode incorrect_predictions.json">>)
              /\ UNCHANGED <<log, exc>>
              /\ pc' = "exit_run"
         [] incorrectFile.st = "json" /\ HasLen(incorrectFile.val) ->
              /\ SayAll(<<"Logging metrics from incorrect_predictions.json...",
                          "Logged number of incorrect predictions">>)
              /\ log' = log
                    \o <<MetricEvent("num_incorrect_predictions",
                                     IntVal(PyLen(incorrectFile.val)))>>
                    \o PredictionEvents(incorrectFile.val.v)
              /\ UNCHANGED exc
              /\ pc' = "check"
         [] OTHER ->
              \* len() of a value that has no length
              /\ Say("Logging metrics from incorrect_predictions.json...")
              /\ exc' = "TypeError"
              /\ UNCHANGED log
              /\ pc' = "exit_run"
    /\ UNCHANGED <<runs, scoresFile, incorrectFile, results, evalCalls, runStatus,
                   trigger, clock, dvcCalls, dvcRc, triggerAtStart,
                   passedChecks, decision, ref>>

\* incorrect_predictions.json exists, decodes and holds more than 5 entries
OverThreshold ==
    /\ incorrectFile.st = "json"
    /\ HasLen(incorrectFile.val)
    /\ PyLen(incorrectFile.val) > RetrainThreshold

\* whether this run's other inputs are the usual ones: evaluation returned a
\* non-empty mapping and scores.json decoded
Nominal == Truthy(results) /\ IsDict(results) /\ scoresFile.st = "json"

\* what a run that made the threshold test leaves for later runs to compare
RefOf(retrain) ==
    [run |-> runs, n |-> PyLen(incorrectFile.val), retrain |-> retrain]

\* `if num_incorrect > 5:`
ThresholdCheck ==
    /\ pc = "check"
    /\ Step("check")
    /\ IF ExceedsThreshold(PyLen(incorrectFile.val))
       THEN /\ Say("Incorrect predictions exceed 5. Initiating retraining process...")
            /\ decision' = "retrain"
            /\ pc' = "append"
       ELSE /\ UNCHANGED messages
            /\ decision' = "skip"
            /\ pc' = "exit_run"
    /\ passedChecks' = passedChecks + (IF OverThreshold THEN 1 ELSE 0)
    /\ ref' = IF ref = NoRef /\ Nominal
              THEN RefOf(ExceedsThreshold(PyLen(incorrectFile.val)))
              ELSE ref
    /\ UNCHANGED <<runs, scoresFile, incorrectFile, results, evalCalls, runStatus,
                   log, trigger, clock, dvcCalls, dvcRc, exc, triggerAtStart>>

\* variant: the command is started without the marker having been written
AppendMarkerSkipsWrite ==
    /\ pc = "append"
    /\ Step("append")
    /\ pc' = "dvc"
    /\ UNCHANGED <<runs, scoresFile, incorrectFile, results, evalCalls, runStatus,
                   log, messages, trigger, clock, dvcCalls, dvcRc, exc,
                   triggerAtStart, passedChecks, decision, ref>>

\* `with open(trigger_file, "a") as tf: tf.write(...)`
AppendMarker ==
    /\ pc = "append"
    /\ Step("append")
    /\ clock' = clock + 1
    /\ trigger' = AppendLine(trigger, TriggerLine(clock'))
    /\ Say("Updated retrain_trigger.txt to trigger retraining.")
    /\ pc' = "dvc"
    /\ UNCHANGED <<runs, scoresFile, incorrectFile, results, evalCalls, runStatus,
                   log, dvcCalls, dvcRc, exc, triggerAtStart, passedChecks, decision, ref>>

DvcMessages(o) ==
    (IF o.out # "" THEN <<"DVC repro output: " \o o.out>> ELSE <<>>)
        \o (IF o.err # "" THEN <<"DVC repro stderr: " \o o.err>> ELSE <<>>)
        \o <<"Retraining stage triggered successfully.">>

\* subprocess.run(["dvc", "repro", "training"], check=True, ...)
RunDvc ==
    /\ pc = "dvc"
    /\ Step("dvc")
    /\ dvcCalls' = dvcCalls + 1
    /\ \E o \in DvcOutcomes :
          /\ dvcRc' = o.rc
          /\ IF ~DvcRaises(o)
             THEN /\ SayAll(DvcMessages(o))
                  /\ UNCHANGED exc
             ELSE /\ Say("Failed to trigger retraining: " \o o.err)
                  /\ exc' = "CalledProcessError"
    /\ pc' = "exit_run"
    /\ UNCHANGED <<runs, scoresFile, incorrectFile, results, evalCalls, runStatus,
                   log, trigger, clock, triggerAtStart, passedChecks, decision, ref>>

\* the with block of mlflow.start_run is left, normally or by an exception
ExitRun ==
    /\ pc = "exit_run"
    /\ runStatus' = StatusAtExit(exc)
    /\ pc' = IF exc = "none" THEN "final" ELSE "except"
    /\ UNCHANGED <<runs, scoresFile, incorrectFile, results, evalCalls,
                   log, messages, trigger, clock, dvcCalls, dvcRc, exc, trace,
                   triggerAtStart, passedChecks, decision, ref>>

\* the last line of main, and the __main__ block after obj.main() returns
Final ==
    /\ pc = "final"
    /\ SayAll(<<"Evaluation run completed and logged successfully.",
                ">>>>>> stage " \o STAGE_NAME \o " completed <<<<<<">>)
    /\ pc' = "done"
    /\ UNCHANGED <<runs, scoresFile, incorrectFile, results, evalCalls, runStatus,
                   log, trigger, clock, dvcCalls, dvcRc, exc, trace,
                   triggerAtStart, passedChecks, decision, ref>>

\* `except Exception as e: logger.exception(e); raise e` of the __main__ block
Except ==
    /\ pc = "except"
    /\ Say("Traceback: " \o exc)
    /\ pc' = "raised"
    /\ UNCHANGED <<runs, scoresFile, incorrectFile, results, evalCalls, runStatus,
                   log, trigger, clock, dvcCalls, dvcRc, exc, trace,
                   triggerAtStart, passedChecks, decision, ref>>

MainStep ==
    \/ LoadConfig
    \/ StartRun
    \/ LogParams
    \/ Evaluate
    \/ LogResults
    \/ ScoresStep
    \/ IncorrectStep
    \/ ThresholdCheck
    \/ AppendMarker
    \/ RunDvc
    \/ ExitRun
    \/ Final
    \/ Except

Next == Start \/ MainStep

Spec == Init /\ [][Next]_vars

\* a launched stage runs to its end: the code is sequential and every call
\* it makes returns or raises
LiveSpec == Spec /\ WF_vars(MainStep)

TypeOK ==
    /\ pc \in {"idle", "load_config", "start_run", "log_params", "evaluate",
                "log_results", "scores", "incorrect", "check", "append", "dvc",
                "exit_run", "final", "except", "done", "raised"}
    /\ runs \in 0..MaxRuns
    /\ runStatus \in {"none", "RUNNING", "FINISHED", "FAILED"}
    /\ exc \in {"none", "AttributeError", "TypeError", "CalledProcessError"}
    /\ decision \in {"none", "retrain", "skip"}
    /\ dvcRc \in {-1, 0, 1}
    /\ dvcCalls \in 0..1

(* ------------------------------------------------------------- properties *)
IsPrefix(s, t) == Len(s) <= Len(t) /\ \A i \in 1..Len(s) : s[i] = t[i]

HasMsg(m) == \E i \in 1..Len(messages) : messages[i] = m

Did(name) == \E i \in 1..Len(trace) : trace[i] = name

RunOver == pc \in {"done", "raised"}

MarkerAppended == Len(trigger) = triggerAtStart + 1
MarkerUntouched == Len(trigger) = triggerAtStart

SuccessMsg == "Retraining stage triggered successfully."
FinalMsg == "Evaluation run completed and logged successfully."

\* the steps of main in program order
MainOrder ==
    <<"load_config", "start_run", "log_params", "evaluate", "log_results",
      "scores", "incorrect", "check", "append", "dvc">>

\* C1: in a finished run, retraining was triggered (marker line appended and
\* dvc started) exactly when incorrect_predictions.json exists, decodes and
\* has more than 5 entries; otherwise the marker file is unchanged and no
\* process was started.
C1_TriggeredIffOverThreshold ==
    RunOver =>
        /\ (MarkerAppended /\ dvcCalls = 1) <=> OverThreshold
        /\ ~OverThreshold => (MarkerUntouched /\ dvcCalls = 0)

\* C2: dvc is started at most once per run, and at the moment it is started
\* this run's marker line is already in retrain_trigger.txt.
C2_MarkerBeforeDvcAtMostOnce ==
    /\ [](dvcCalls <= 1)
    /\ [](dvcCalls = 1 => MarkerAppended)
    /\ [][dvcCalls' = dvcCalls + 1 => (MarkerAppended /\ trigger' = trigger)]_vars

C2_Witness == dvcCalls = 1 /\ MarkerAppended /\ pc = "exit_run"

\* C3: the steps executed so far in a run are always an initial part of the
\* one program order (so none is repeated and none overtakes an earlier one),
\* and evaluation() has been called exactly once from the evaluation step on.
C3_FixedLinearOrder ==
    /\ IsPrefix(trace, MainOrder)
    /\ evalCalls = (IF Did("evaluate") THEN 1 ELSE 0)
    /\ Did("log_params") => /\ Len(log) >= 2
                            /\ log[1].key = "image_size"
                            /\ log[2].key = "batch_size"
    /\ Did("start_run") <=> runStatus # "none"
    /\ decision # "none" <=> Did("check")

C3_Witness == trace = MainOrder /\ pc = "done"

\* C4: retrain_trigger.txt only grows, by at most one line per step and per
\* run, and holds one line per run so far whose threshold test was true.
C4_TriggerAppendOnly ==
    /\ [][IsPrefix(trigger, trigger') /\ Len(trigger') <= Len(trigger) + 1]_vars
    /\ [](MarkerAppended \/ MarkerUntouched)
    /\ [](Len(trigger) = passedChecks - (IF pc = "append" THEN 1 ELSE 0))

C4_Witness == Len(trigger) = 2 /\ runs = 2 /\ pc = "done"

\* C6: once dvc has exited with a non-zero status the run ends by raising
\* CalledProcessError: neither the success message nor the final message is
\* emitted, and the marker line of this run stays in the file.
C6_DvcFailurePropagates ==
    (dvcCalls = 1 /\ dvcRc # 0) =>
        /\ pc \in {"exit_run", "except", "raised"}
        /\ exc = "CalledProcessError"
        /\ ~HasMsg(SuccessMsg)
        /\ ~HasMsg(FinalMsg)
        /\ MarkerAppended

C6_Witness == dvcCalls = 1 /\ dvcRc = 1 /\ pc = "raised"

Skipped(file) == file.st \in {"missing", "undecodable"}

ResultsSegment == SubSeq(log, 3, Len(log))

\* C7: right after the results step, when `results` is a non-empty mapping
\* every entry has exactly one event, a metric under its name when its value
\* is an int or float and otherwise a parameter holding the value's string
\* form, and nothing else was logged; when `results` is empty or no mapping
\* nothing was logged from it. Either way the run is at the scores.json step.
C7_EachResultLoggedOnce ==
    (Len(trace) > 0 /\ trace[Len(trace)] = "log_results") =>
        /\ pc = "scores"
        /\ exc = "none"
        /\ IF results.t = "dict"
           THEN /\ Len(ResultsSegment) = Len(results.v)
                /\ \A i \in 1..Len(results.v) :
                     LET name == results.v[i][1]
                         value == results.v[i][2]
                         hits == {j \in 1..Len(ResultsSegment) :
                                     ResultsSegment[j].key = name}
                     IN  /\ Cardinality(hits) = 1
                         /\ \A j \in hits :
                              IF value.t \in {"int", "float", "bool"}
                              THEN /\ ResultsSegment[j].kind = "metric"
                                   /\ ResultsSegment[j].value = value
                              ELSE /\ ResultsSegment[j].kind = "param"
                                   /\ ResultsSegment[j].value = StrVal(Str(value))
           ELSE Len(ResultsSegment) = 0

C7_Witness ==
    /\ pc = "scores"
    /\ results.t = "dict"
    /\ Len(results.v) = 2
    /\ results.v[1][2].t = "int"
    /\ results.v[2][2].t = "str"
    /\ Len(log) = 4
    /\ log[3].kind = "metric"
    /\ log[4].kind = "param"

EventsAt(kind, key) == {j \in 1..Len(log) : log[j].kind = kind /\ log[j].key = key}

\* C8: in a finished run whose incorrect_predictions.json exists and
\* decodes, num_incorrect_predictions was logged exactly once with the number
\* of entries n, and incorrect_prediction_0 .. incorrect_prediction_(n-1)
\* were each logged once, in file order, before the threshold test.
C8_IncorrectAlwaysLogged ==
    (RunOver /\ incorrectFile.st = "json") =>
        /\ Cardinality(EventsAt("metric", "num_incorrect_predictions")) = 1
        /\ HasLen(incorrectFile.val)
        /\ \A j \in EventsAt("metric", "num_incorrect_predictions") :
             /\ log[j].value = IntVal(PyLen(incorrectFile.val))
             /\ Len(log) = j + PyLen(incorrectFile.val)
             /\ \A i \in 1..PyLen(incorrectFile.val) :
                  log[j + i] = ParamEvent(PredictionKey(i - 1), incorrectFile.val.v[i])
        /\ Did("incorrect")

\* C9: a tracking run that was started is ended, whichever way the with
\* block is left; main is never past the with block with the run still open;
\* and the marker is written and dvc started only while the run is open.
C9_RunAlwaysEnded ==
    /\ (runStatus = "RUNNING") ~> (runStatus \in {"FINISHED", "FAILED"})
    /\ [](pc \in {"final", "except", "done", "raised"}
            => runStatus \in {"FINISHED", "FAILED"})
    /\ [][(trigger' # trigger \/ dvcCalls' = dvcCalls + 1)
            => (runStatus = "RUNNING" /\ runStatus' = "RUNNING")]_vars

C9_Witness == runStatus = "FAILED" /\ exc = "CalledProcessError" /\ pc = "raised"

\* C10: a run that made the threshold test decided as the reference run did
\* (the first run that made the test after evaluation() returned a non-empty
\* mapping and scores.json decoded) when both found the same number of
\* entries in incorrect_predictions.json, whatever evaluation() returned and
\* whatever scores.json held in the later run. Two runs that agree with the
\* same reference run agree with each other.
C10_DecisionDependsOnlyOnIncorrect ==
    (ref.run # 0 /\ decision # "none" /\ PyLen(incorrectFile.val) = ref.n)
        => ((decision = "retrain") <=> ref.retrain)

C10_Witness ==
    /\ ref.run # 0
    /\ ref.run < runs
    /\ decision = "retrain"
    /\ PyLen(incorrectFile.val) = ref.n
    /\ ~Nominal
    /\ scoresFile.st = "missing"

====
